---- MODULE Spec2Model ----
(***************************************************************************)
(* A model of the process / virtual-memory / stride-scheduling core of the *)
(* rCore teaching kernel: os/src/task/task.rs (the task control block),    *)
(* os/src/syscall/process.rs and os/src/syscall/fs.rs (the syscalls).      *)
(*                                                                         *)
(* The memory-set module (mm), the task manager / processor (add_task,     *)
(* fetch, run_tasks, exit_current_and_run_next, ...), the pid allocator    *)
(* and config.rs are not among the source files; the definitions that      *)
(* stand for them follow the design document and are marked as such.       *)
(***************************************************************************)
EXTENDS Integers, Sequences, FiniteSets, TLC

VARIABLES
    tcb,            \* pid -> TaskControlBlock (inner fields), FreeTCB when no such task
    live,           \* the pids of the TaskControlBlocks that exist
    ready_queue,    \* TaskManager.ready_queue
    current,        \* Processor.current (NoTask in the idle control flow)
    pid_current,    \* the pid allocator's next fresh pid
    pid_recycled,   \* the pid allocator's recycled pids (a stack)
    pid_limit,      \* the number of pids the allocator can hand out
    dispatch_limit, \* the number of dispatches the run is followed for
    overflow_checks,\* build profile: TRUE when usize arithmetic panics on overflow
    panicked,       \* "none", or the reason the kernel path terminated
    dispatches,     \* number of dispatches so far (bounded by MaxDispatch)
    ndisp,          \* pid -> number of times the task was dispatched
    reaped,         \* history: the <<parent, pid>> pairs waitpid has returned
    last            \* the last kernel entry: operation, caller, arguments, result

vars == <<tcb, live, ready_queue, current, pid_current, pid_recycled,
          pid_limit, dispatch_limit, overflow_checks, panicked, dispatches, ndisp, reaped, last>>

\* what a run never changes
config == <<pid_limit, dispatch_limit, overflow_checks>>

----------------------------------------------------------------------------
(* Bounds of the model *)

MaxPid == 3
MaxDispatch == 5
MaxPrioPid == 2
MaxPrioDispatch == 2
MaxAreas == 6
MaxMemDispatch == 1
MaxHeapDispatch == 2
MaxForkPid == 3
MaxForkDispatch == 3
MaxFd == 4
MaxFdPid == 2
MaxFdDispatch == 2
MaxIoDispatch == 1
MaxExecPid == 3
MaxAliasPid == 2
MaxAliasDispatch == 2
MaxShareDispatch == 12
MaxSpawnPid == 3
MaxNewPid == 3
MaxNewDispatch == 2
MaxSyscallTimes == 1
MaxKeepPid == 2
MaxKeepDispatch == 2
MaxAccessPid == 2
MaxAccessDispatch == 3
MaxSpawnDispatch == 3

(* Program constants *)

\* usize arithmetic is modulo 2^64 in the kernel; the model keeps the wrap
\* at 8 bits, with BIG_STRIDE reduced in proportion.
USIZE_MOD == 256
BIG_STRIDE == 32
PAGE_SIZE == 4096
DEFAULT_PRIORITY == 16
\* the length of SyscallInfo.syscall_times (MAX_SYSCALL_NUM of config.rs),
\* scaled down to two syscall numbers
MAX_SYSCALL_NUM == 2
SyscallNums == 0..(MAX_SYSCALL_NUM - 1)

\* Virtual page numbers: user pages 0..UserPages-1, then the trap context
\* page and the trampoline page at the top of the address space.
UserPages == 6
TRAP_CONTEXT_VPN == UserPages
TRAMPOLINE_VPN == UserPages + 1
AllVpns == 0..TRAMPOLINE_VPN
AddrSpaceEnd == (TRAMPOLINE_VPN + 1) * PAGE_SIZE

Pids == 0..(MaxPid - 1)
INITPROC == 0
NoTask == -1

Apps == {"initproc", "usertest"}
Paths == Apps \cup {"missing"}
ExitCodes == {0, 7}

Min(S) == CHOOSE x \in S : \A y \in S : x <= y
Max(S) == CHOOSE x \in S : \A y \in S : x >= y

RemoveAt(s, i) == SubSeq(s, 1, i - 1) \o SubSeq(s, i + 1, Len(s))
Range(s) == {s[i] : i \in 1..Len(s)}
Occurrences(s, x) == Cardinality({i \in 1..Len(s) : s[i] = x})

----------------------------------------------------------------------------
(* Stride: task.rs, impl PartialOrd for Stride *)

\* usize subtraction as the release profile computes it
wrapping_sub(a, b) == (a - b + USIZE_MOD) % USIZE_MOD
wrapping_add(a, b) == (a + b) % USIZE_MOD

\* usize::cmp
cmp(a, b) == IF a < b THEN "Less" ELSE IF a = b THEN "Equal" ELSE "Greater"

\* Stride::partial_cmp(&self, other): `self.0 - other.0` panics when overflow
\* checks are compiled in and self.0 < other.0, and wraps otherwise.
partial_cmp(self, other, checks) ==
    IF checks /\ self < other THEN "Panic"
    ELSE IF wrapping_sub(self, other) > BIG_STRIDE \div 2
         THEN cmp(self, other)
         ELSE cmp(other, self)

\* SyscallInfo::add_stride: self.stride.0 += self.pass
add_stride_overflows(info) == info.stride + info.pass >= USIZE_MOD
add_stride(info) == [info EXCEPT !.stride = wrapping_add(info.stride, info.pass)]

----------------------------------------------------------------------------
(* Address space (mm is not among the sources: modelled from the design) *)

floor(va) == va \div PAGE_SIZE
ceil(va) == (va + PAGE_SIZE - 1) \div PAGE_SIZE
page_offset(va) == va % PAGE_SIZE
VpnRange(s, e) == {v \in AllVpns : s <= v /\ v < e}

NoMem == [areas |-> <<>>, page_table |-> [v \in AllVpns |-> {}]]

\* MemorySet::push of a framed area: the area is recorded and each of its
\* pages is mapped with the area's permission
push_area(ms, area) ==
    [areas |-> Append(ms.areas, area),
     page_table |-> [v \in AllVpns |->
                        IF v \in VpnRange(area.start, area.end)
                        THEN area.perm \cup {"V"}
                        ELSE ms.page_table[v]]]

RECURSIVE push_all(_, _)
push_all(ms, areas) ==
    IF areas = <<>> THEN ms
    ELSE push_all(push_area(ms, Head(areas)), Tail(areas))

\* MemorySet::new_bare followed by map_trampoline
new_bare_with_trampoline ==
    [NoMem EXCEPT !.page_table[TRAMPOLINE_VPN] = {"V", "R", "X"}]

ElfPages(app) == IF app = "initproc" THEN 1 ELSE 2

\* MemorySet::from_elf: program segments, a guard page, the user stack, the
\* (empty) heap region and the trap context page; returns the space and the
\* user stack top
from_elf_areas(app) ==
    LET n == ElfPages(app) IN
    << [start |-> 0, end |-> n, perm |-> {"R", "X", "U"}],
       [start |-> n + 1, end |-> n + 2, perm |-> {"R", "W", "U"}],
       [start |-> n + 2, end |-> n + 2, perm |-> {"R", "W", "U"}],
       [start |-> TRAP_CONTEXT_VPN, end |-> TRAP_CONTEXT_VPN + 1, perm |-> {"R", "W"}] >>
from_elf(app) == push_all(new_bare_with_trampoline, from_elf_areas(app))
user_sp_of(app) == (ElfPages(app) + 2) * PAGE_SIZE

\* MemorySet::from_existed_user: a bare space with the trampoline, then every
\* region of the source duplicated with fresh frames
from_existed_user(ms) == push_all(new_bare_with_trampoline, ms.areas)

\* judge_allocation(token, start_va, end_va): None when some page of the range
\* is already mapped
judge_allocation(ms, start_va, end_va) ==
    \A v \in VpnRange(floor(start_va), ceil(end_va)) : ms.page_table[v] = {}

\* judge_free(token, start_va, end_va): None when some page of the range is
\* not mapped
judge_free(ms, start_va, end_va) ==
    \A v \in VpnRange(floor(start_va), ceil(end_va)) : ms.page_table[v] # {}

\* MemorySet::insert_framed_area
insert_framed_area(ms, start_va, end_va, perm) ==
    push_area(ms, [start |-> floor(start_va), end |-> ceil(end_va), perm |-> perm])

\* MemorySet::set_munmap: a region whose bounds are exactly the given ones is
\* unmapped and removed; false when there is none.  Which region goes when
\* several have these bounds is not fixed by the description, so idx ranges
\* over munmap_matches.
munmap_matches(ms, start_va, end_va) ==
    {i \in 1..Len(ms.areas) :
        ms.areas[i].start = floor(start_va) /\ ms.areas[i].end = ceil(end_va)}
set_munmap_ok(ms, start_va, end_va) == munmap_matches(ms, start_va, end_va) # {}
set_munmap(ms, start_va, end_va, idx) ==
    [areas |-> RemoveAt(ms.areas, idx),
     page_table |-> [v \in AllVpns |->
                        IF v \in VpnRange(floor(start_va), ceil(end_va))
                        THEN {}
                        ELSE ms.page_table[v]]]

\* MemorySet::append_to / shrink_to (grow_heap / shrink_heap): the region that
\* starts at the page of start has its upper bound moved to the page bound of
\* new_end; the pages that enter the region are mapped with its permission
\* and the pages that leave it are unmapped.  false when no region starts
\* there.
heap_region(ms, start) ==
    {i \in 1..Len(ms.areas) : ms.areas[i].start = floor(start)}
resize_region(ms, idx, new_end) ==
    LET area == ms.areas[idx]
        old == VpnRange(area.start, area.end)
        now == VpnRange(area.start, ceil(new_end)) IN
    [areas |-> [ms.areas EXCEPT ![idx].end = ceil(new_end)],
     page_table |-> [v \in AllVpns |->
                        IF v \in now \ old THEN area.perm \cup {"V"}
                        ELSE IF v \in old \ now THEN {}
                        ELSE ms.page_table[v]]]
append_to(ms, start, new_end) ==
    IF heap_region(ms, start) = {}
    THEN [ok |-> FALSE, ms |-> ms]
    ELSE [ok |-> TRUE, ms |-> resize_region(ms, Min(heap_region(ms, start)), new_end)]
shrink_to(ms, start, new_end) ==
    IF heap_region(ms, start) = {}
    THEN [ok |-> FALSE, ms |-> ms]
    ELSE [ok |-> TRUE, ms |-> resize_region(ms, Min(heap_region(ms, start)), new_end)]

----------------------------------------------------------------------------
(* Task control blocks: task.rs *)

\* A slot of a file-descriptor table: None, or a shared handle to a file
\* object.  id tells the objects apart (the Arc pointer); the console objects
\* made by TaskControlBlock::new are 0, 1 and 2.
NoFile == [id |-> -1, kind |-> "None", readable |-> FALSE, writable |-> FALSE]
Stdin(id) == [id |-> id, kind |-> "Stdin", readable |-> TRUE, writable |-> FALSE]
Stdout(id) == [id |-> id, kind |-> "Stdout", readable |-> FALSE, writable |-> TRUE]
OSInode(id, readable, writable) ==
    [id |-> id, kind |-> "OSInode", readable |-> readable, writable |-> writable]

\* kstack_alloc: every task gets a kernel stack of its own; the stack, and
\* with it its top, is identified by the pid it was allocated for
kstack_alloc(pid_handle) == pid_handle

\* TrapContext::app_init_context(entry, sp, kernel_satp, kernel_sp,
\* trap_handler): zeroed registers, the user stack pointer, the entry point of
\* the image and the kernel stack to trap into.  x10 is the return-value
\* register a0; kernel_satp and trap_handler are the same in every frame.
app_init_context(app, user_sp, kernel_sp) ==
    [x10 |-> 0, sp |-> user_sp, sepc |-> <<app, "entry">>, kernel_sp |-> kernel_sp]
NoTrapCx == [x10 |-> 0, sp |-> 0, sepc |-> <<"", "">>, kernel_sp |-> NoTask]

FreeTCB ==
    [status |-> "UnInit", memory_set |-> NoMem, parent |-> NoTask,
     children |-> <<>>, exit_code |-> 0, fd_table |-> <<>>,
     base_size |-> 0, heap_bottom |-> 0, program_brk |-> 0,
     kernel_stack |-> NoTask, trap_cx |-> NoTrapCx,
     taskinfo |-> [syscall_times |-> [n \in SyscallNums |-> 0],
                   time |-> 0, stride |-> 0, pass |-> 0, priority |-> 0]]

\* the SyscallInfo every constructor writes (task.rs 200-206, 303-309, 380-386)
InitialTaskInfo ==
    [syscall_times |-> [n \in SyscallNums |-> 0], time |-> 0, stride |-> 0,
     pass |-> BIG_STRIDE \div DEFAULT_PRIORITY, priority |-> DEFAULT_PRIORITY]

\* TaskControlBlock::new(elf_data)
new(app) ==
    [status |-> "Ready", memory_set |-> from_elf(app), parent |-> NoTask,
     children |-> <<>>, exit_code |-> 0,
     fd_table |-> <<Stdin(0), Stdout(1), Stdout(2)>>,
     base_size |-> user_sp_of(app), heap_bottom |-> user_sp_of(app),
     program_brk |-> user_sp_of(app),
     kernel_stack |-> kstack_alloc(INITPROC),
     trap_cx |-> app_init_context(app, user_sp_of(app), kstack_alloc(INITPROC)),
     taskinfo |-> InitialTaskInfo]

\* TaskControlBlock::fork, lines 316-320: the frame copied with the address
\* space gets the child's kernel stack top
fork_trap_cx(parent_cx, kernel_stack_top) ==
    [parent_cx EXCEPT !.kernel_sp = kernel_stack_top]

\* mutant of copy_fd_table: only the open slots are pushed
copy_fd_table_open_slots_only(fd_table) ==
    SelectSeq(fd_table, LAMBDA file : file # NoFile)

\* fork lines 265-273 and spawn lines 342-350, "copy fd table": for each slot
\* of the parent, push Some(file.clone()) (the same file object) or None
copy_fd_table(fd_table) ==
    [i \in 1..Len(fd_table) |->
        IF fd_table[i] # NoFile THEN fd_table[i] ELSE NoFile]

\* mutant of fork_child: the scheduling metadata is copied from the parent
fork_child_inherits_taskinfo(self, parent_inner, pid_handle) ==
    [status |-> "Ready",
     memory_set |-> from_existed_user(parent_inner.memory_set),
     parent |-> self, children |-> <<>>, exit_code |-> 0,
     fd_table |-> copy_fd_table(parent_inner.fd_table),
     base_size |-> parent_inner.base_size,
     heap_bottom |-> parent_inner.heap_bottom,
     program_brk |-> parent_inner.program_brk,
     kernel_stack |-> kstack_alloc(pid_handle),
     trap_cx |-> fork_trap_cx(parent_inner.trap_cx, kstack_alloc(pid_handle)),
     taskinfo |-> parent_inner.taskinfo]

\* the child built by TaskControlBlock::fork(self); pid_handle is the pid
\* pid_alloc gave it
fork_child(self, parent_inner, pid_handle) ==
    [status |-> "Ready",
     memory_set |-> from_existed_user(parent_inner.memory_set),
     parent |-> self, children |-> <<>>, exit_code |-> 0,
     fd_table |-> copy_fd_table(parent_inner.fd_table),
     base_size |-> parent_inner.base_size,
     heap_bottom |-> parent_inner.heap_bottom,
     program_brk |-> parent_inner.program_brk,
     kernel_stack |-> kstack_alloc(pid_handle),
     trap_cx |-> fork_trap_cx(parent_inner.trap_cx, kstack_alloc(pid_handle)),
     taskinfo |-> InitialTaskInfo]

\* mutant of spawn_child: the address space is copied from the caller's
spawn_child_copies_space(self, father_inner, app, pid_handle) ==
    [status |-> "Ready", memory_set |-> from_existed_user(father_inner.memory_set),
     parent |-> self, children |-> <<>>, exit_code |-> 0,
     fd_table |-> copy_fd_table(father_inner.fd_table),
     base_size |-> user_sp_of(app), heap_bottom |-> user_sp_of(app),
     program_brk |-> user_sp_of(app),
     kernel_stack |-> kstack_alloc(pid_handle),
     trap_cx |-> app_init_context(app, user_sp_of(app), kstack_alloc(pid_handle)),
     taskinfo |-> InitialTaskInfo]

\* the child built by TaskControlBlock::spawn(self, elf_data)
spawn_child(self, father_inner, app, pid_handle) ==
    [status |-> "Ready", memory_set |-> from_elf(app),
     parent |-> self, children |-> <<>>, exit_code |-> 0,
     fd_table |-> copy_fd_table(father_inner.fd_table),
     base_size |-> user_sp_of(app), heap_bottom |-> user_sp_of(app),
     program_brk |-> user_sp_of(app),
     kernel_stack |-> kstack_alloc(pid_handle),
     trap_cx |-> app_init_context(app, user_sp_of(app), kstack_alloc(pid_handle)),
     taskinfo |-> InitialTaskInfo]

\* mutant of exec: the file table is rebuilt as for a new task
exec_new_fd_table(inner, app) ==
    [inner EXCEPT !.memory_set = from_elf(app),
                  !.trap_cx = app_init_context(app, user_sp_of(app),
                                               inner.kernel_stack),
                  !.fd_table = <<Stdin(0), Stdout(1), Stdout(2)>>]

\* mutant of exec: the heap bounds are set to the new image's user stack top
exec_resets_heap(inner, app) ==
    [inner EXCEPT !.memory_set = from_elf(app),
                  !.trap_cx = app_init_context(app, user_sp_of(app),
                                               inner.kernel_stack),
                  !.base_size = user_sp_of(app),
                  !.heap_bottom = user_sp_of(app),
                  !.program_brk = user_sp_of(app)]

\* TaskControlBlock::exec(self, elf_data): the address space (and with it the
\* trap context page) is replaced and the trap context is initialised anew
exec(inner, app) ==
    [inner EXCEPT !.memory_set = from_elf(app),
                  !.trap_cx = app_init_context(app, user_sp_of(app),
                                               inner.kernel_stack)]

\* Arc::strong_count of a task: the children lists, the ready queue and the
\* processor's current slot are the owners
strong_count(p) ==
    Cardinality({<<q, i>> \in Pids \X (1..MaxPid) :
                    i <= Len(tcb[q].children) /\ tcb[q].children[i] = p})
    + Occurrences(ready_queue, p)
    + (IF current = p THEN 1 ELSE 0)

----------------------------------------------------------------------------
(* The pid allocator (a recycling allocator) *)

pid_available == pid_recycled # <<>> \/ pid_current < pid_limit
pid_alloc_value ==
    IF pid_recycled # <<>> THEN pid_recycled[Len(pid_recycled)] ELSE pid_current
pid_alloc_current == IF pid_recycled # <<>> THEN pid_current ELSE pid_current + 1
pid_alloc_recycled ==
    IF pid_recycled # <<>> THEN SubSeq(pid_recycled, 1, Len(pid_recycled) - 1)
    ELSE pid_recycled
pid_dealloc(recycled, p) == Append(recycled, p)

----------------------------------------------------------------------------
(* The record of the last kernel entry *)

Entry(op, caller) ==
    [op |-> op, caller |-> caller, a1 |-> 0, a2 |-> 0, a3 |-> 0, path |-> "",
     ret |-> 0, ord |-> "", out |-> <<>>, pre |-> NoMem]
\* last.pre is the caller's address space before a successful mmap and
\* before an sbrk

InSyscall == panicked = "none" /\ current # NoTask

----------------------------------------------------------------------------
(* The task manager and the processor *)

\* TaskManager::fetch picks the ready task whose stride is minimal under
\* Stride::partial_cmp.  fetch_outcome(queue, idx, checks) tells what comparing
\* the task at idx with every other ready task gives: "Panic" when one of the
\* comparisons panics, "Chosen" when the task compares Less or Equal to every
\* other one, "Skipped" when some other task is in front of it.  Which of the
\* tasks that can be chosen is taken is left open.
fetch_outcome(queue, idx, checks) ==
    LET cs == {partial_cmp(tcb[queue[idx]].taskinfo.stride,
                           tcb[queue[j]].taskinfo.stride, checks) :
                  j \in (1..Len(queue)) \ {idx}} IN
    IF "Panic" \in cs THEN "Panic"
    ELSE IF "Greater" \in cs THEN "Skipped"
    ELSE "Chosen"

\* run_tasks (the idle control flow): fetch a task, charge it one pass, mark
\* it Running and make it the current task
run_tasks_step ==
    /\ panicked = "none"
    /\ current = NoTask
    /\ \E idx \in 1..Len(ready_queue) :
         LET task == ready_queue[idx]
             outcome == fetch_outcome(ready_queue, idx, overflow_checks) IN
         /\ outcome # "Skipped"
         /\ IF outcome = "Panic"
               \/ (overflow_checks /\ add_stride_overflows(tcb[task].taskinfo))
            THEN /\ panicked' = "overflow"
                 /\ last' = Entry("panic", NoTask)
                 /\ UNCHANGED <<tcb, ready_queue, current>>
            ELSE /\ tcb' = [tcb EXCEPT ![task].status = "Running",
                                       ![task].taskinfo = add_stride(@)]
                 /\ ready_queue' = RemoveAt(ready_queue, idx)
                 /\ current' = task
                 /\ last' = [Entry("dispatch", task) EXCEPT !.ret = task]
                 /\ UNCHANGED panicked
    /\ UNCHANGED <<live, pid_current, pid_recycled, config>>

run_tasks ==
    /\ dispatches < dispatch_limit
    /\ run_tasks_step
    /\ dispatches' = dispatches + 1
    /\ UNCHANGED <<ndisp, reaped>>

\* TaskControlBlockInner::add_one_syscall(sys_num).  Its caller, the syscall
\* dispatcher, is not among the sources: the count is a step of its own, taken
\* by the running task when it enters the kernel
add_one_syscall(sys_num) ==
    /\ InSyscall
    /\ tcb[current].taskinfo.syscall_times[sys_num] < MaxSyscallTimes
    /\ tcb' = [tcb EXCEPT ![current].taskinfo.syscall_times[sys_num] = @ + 1]
    /\ last' = [Entry("syscall", current) EXCEPT !.a1 = sys_num]
    /\ UNCHANGED <<live, ready_queue, current, pid_current, pid_recycled,
                   panicked, dispatches, ndisp, reaped, config>>

\* sys_yield: suspend_current_and_run_next puts the current task back at the
\* end of the ready queue and returns to the idle control flow
sys_yield ==
    /\ InSyscall
    /\ tcb' = [tcb EXCEPT ![current].status = "Ready"]
    /\ ready_queue' = Append(ready_queue, current)
    /\ current' = NoTask
    /\ last' = Entry("yield", current)
    /\ UNCHANGED <<live, pid_current, pid_recycled, panicked, dispatches,
                   ndisp, reaped, config>>

\* sys_exit: exit_current_and_run_next marks the current task Zombie, records
\* the exit code, hands its children to the init task, releases its regions
\* and returns to the idle control flow.  The init task itself never exits.
sys_exit(exit_code) ==
    /\ InSyscall
    /\ current # INITPROC
    /\ LET task == current
           moved == tcb[task].children IN
       tcb' = [p \in Pids |->
                 IF p = task
                 THEN [tcb[p] EXCEPT !.status = "Zombie", !.exit_code = exit_code,
                                     !.children = <<>>, !.memory_set.areas = <<>>]
                 ELSE IF p = INITPROC
                 THEN [tcb[p] EXCEPT !.children = @ \o moved]
                 ELSE IF p \in Range(moved)
                 THEN [tcb[p] EXCEPT !.parent = INITPROC]
                 ELSE tcb[p]]
    /\ current' = NoTask
    /\ last' = [Entry("exit", current) EXCEPT !.a1 = exit_code]
    /\ UNCHANGED <<live, ready_queue, pid_current, pid_recycled, panicked,
                   dispatches, ndisp, reaped, config>>

----------------------------------------------------------------------------
(* Process syscalls: syscall/process.rs *)

\* `pid as usize` for an isize
as_usize(x) == IF x < 0 THEN x + USIZE_MOD ELSE x

\* the closure of lines 97 and 104: pid == -1 || pid as usize == p.getpid()
waitpid_matches(pid, p) == pid = -1 \/ as_usize(pid) = p

\* lines 94-98: children.iter().any(..)
waitpid_any(children, pid) ==
    \E i \in 1..Len(children) : waitpid_matches(pid, children[i])

\* mutant of waitpid_find: the last matching Zombie child instead of the first
waitpid_find_last(children, pid) ==
    LET hits == {i \in 1..Len(children) :
                    tcb[children[i]].status = "Zombie"
                    /\ waitpid_matches(pid, children[i])} IN
    IF hits = {} THEN 0 ELSE Max(hits)

\* lines 102-106: children.iter().enumerate().find(..), 0 for None
waitpid_find(children, pid) ==
    LET hits == {i \in 1..Len(children) :
                    tcb[children[i]].status = "Zombie"
                    /\ waitpid_matches(pid, children[i])} IN
    IF hits = {} THEN 0 ELSE Min(hits)

\* mutant of children_remove: the head of the list is removed
children_remove_first(children, idx) == RemoveAt(children, 1)

\* line 108: inner.children.remove(idx)
children_remove(children, idx) == RemoveAt(children, idx)

\* mutant of fork_return_value: the child's a0 is left as copied
fork_return_value_unchanged(trap_cx) == trap_cx

\* sys_fork, lines 62-65: trap_cx.x[10] = 0 in the child
fork_return_value(trap_cx) == [trap_cx EXCEPT !.x10 = 0]

\* mutant of fork_parent: the handles are moved out of the parent's table
\* instead of being cloned
fork_parent_handles_moved(parent_inner, new_pid) ==
    [parent_inner EXCEPT !.children = Append(@, new_pid),
                         !.fd_table = [i \in 1..Len(@) |-> NoFile]]

\* mutant of fork_parent: the child's handle is pushed twice
fork_parent_pushes_twice(parent_inner, new_pid) ==
    [parent_inner EXCEPT !.children = Append(Append(@, new_pid), new_pid)]

\* TaskControlBlock::fork, what is done to parent_inner: its address space
\* and file table are read, and the child is pushed to its children
fork_parent(parent_inner, new_pid) ==
    [parent_inner EXCEPT !.children = Append(@, new_pid)]

\* sys_fork; a0 is what the caller's a0 register held when it trapped, saved
\* in its trap frame
sys_fork(a0) ==
    /\ InSyscall
    /\ pid_available
    /\ LET new_pid == pid_alloc_value
           parent_inner == [tcb[current] EXCEPT !.trap_cx.x10 = a0]
           new_task == fork_child(current, parent_inner, new_pid) IN
       /\ tcb' = [tcb EXCEPT
                    ![new_pid] = [new_task EXCEPT
                                    !.trap_cx = fork_return_value(@)],
                    ![current] = fork_parent(parent_inner, new_pid)]
       /\ live' = live \cup {new_pid}
       /\ ready_queue' = Append(ready_queue, new_pid)
       /\ last' = [Entry("fork", current) EXCEPT !.ret = new_pid]
    /\ pid_current' = pid_alloc_current
    /\ pid_recycled' = pid_alloc_recycled
    /\ UNCHANGED <<current, panicked, dispatches, ndisp, reaped, config>>

\* sys_exec(path)
sys_exec(path) ==
    /\ InSyscall
    /\ IF path \in Apps
       THEN /\ tcb' = [tcb EXCEPT ![current] = exec(@, path)]
            /\ last' = [Entry("exec", current) EXCEPT !.path = path, !.ret = 0]
       ELSE /\ tcb' = tcb
            /\ last' = [Entry("exec", current) EXCEPT !.path = path, !.ret = -1]
    /\ UNCHANGED <<live, ready_queue, current, pid_current, pid_recycled,
                   panicked, dispatches, ndisp, reaped, config>>

\* sys_spawn(path)
sys_spawn(path) ==
    /\ InSyscall
    /\ IF path \in Apps
       THEN /\ pid_available
            /\ LET new_pid == pid_alloc_value IN
               /\ tcb' = [tcb EXCEPT
                            ![new_pid] = spawn_child(current, tcb[current], path, new_pid),
                            ![current].children = Append(@, new_pid)]
               /\ live' = live \cup {new_pid}
               /\ ready_queue' = Append(ready_queue, new_pid)
               /\ last' = [Entry("spawn", current) EXCEPT !.path = path, !.ret = new_pid]
            /\ pid_current' = pid_alloc_current
            /\ pid_recycled' = pid_alloc_recycled
       ELSE /\ last' = [Entry("spawn", current) EXCEPT !.path = path, !.ret = -1]
            /\ UNCHANGED <<tcb, live, ready_queue, pid_current, pid_recycled>>
    /\ UNCHANGED <<current, panicked, dispatches, ndisp, reaped, config>>

\* sys_waitpid(pid, exit_code_ptr); the value stored through exit_code_ptr is
\* recorded in last.out
sys_waitpid(pid) ==
    /\ InSyscall
    /\ LET task == current
           children == tcb[task].children
           call == [Entry("waitpid", task) EXCEPT !.a1 = pid] IN
       IF ~waitpid_any(children, pid)
       THEN /\ last' = [call EXCEPT !.ret = -1]
            /\ UNCHANGED <<tcb, live, pid_recycled, panicked>>
       ELSE LET idx == waitpid_find(children, pid) IN
            IF idx = 0
            THEN /\ last' = [call EXCEPT !.ret = -2]
                 /\ UNCHANGED <<tcb, live, pid_recycled, panicked>>
            ELSE LET child == children[idx] IN
                 IF strong_count(child) # 1
                 THEN \* assert_eq!(Arc::strong_count(&child), 1) fails
                      /\ tcb' = [tcb EXCEPT ![task].children = children_remove(@, idx)]
                      /\ panicked' = "assert"
                      /\ last' = Entry("panic", task)
                      /\ UNCHANGED <<live, pid_recycled>>
                 ELSE \* the child is dropped at the end of the call
                      /\ tcb' = [tcb EXCEPT ![task].children = children_remove(@, idx),
                                            ![child] = FreeTCB]
                      /\ live' = live \ {child}
                      /\ pid_recycled' = pid_dealloc(pid_recycled, child)
                      /\ last' = [call EXCEPT !.ret = child,
                                              !.out = <<tcb[child].exit_code>>]
                      /\ UNCHANGED panicked
    /\ reaped' = IF last'.op = "waitpid" /\ last'.ret >= 0
                  THEN reaped \cup {<<current, last'.ret>>}
                  ELSE reaped
    /\ UNCHANGED <<ready_queue, current, pid_current, dispatches, ndisp,
                   config>>

\* mutant of set_priority_rejects: priority 1 is let through
set_priority_rejects_below_one(prio) == prio < 1

\* line 286: if _prio <= 1 { return -1; }
set_priority_rejects(prio) == prio <= 1

\* mutant of set_priority_taskinfo: the pass is not recomputed
set_priority_taskinfo_stale_pass(info, prio) ==
    [info EXCEPT !.priority = as_usize(prio)]

\* lines 291-293: the priority and the pass are written, the stride is kept
set_priority_taskinfo(info, prio) ==
    LET u_prio == as_usize(prio) IN
    [info EXCEPT !.priority = u_prio, !.pass = BIG_STRIDE \div u_prio]

\* sys_set_priority(_prio)
sys_set_priority(prio) ==
    /\ InSyscall
    /\ IF set_priority_rejects(prio)
       THEN /\ tcb' = tcb
            /\ last' = [Entry("set_priority", current) EXCEPT !.a1 = prio, !.ret = -1]
       ELSE /\ tcb' = [tcb EXCEPT ![current].taskinfo = set_priority_taskinfo(@, prio)]
            /\ last' = [Entry("set_priority", current) EXCEPT !.a1 = prio, !.ret = prio]
    /\ UNCHANGED <<live, ready_queue, current, pid_current, pid_recycled,
                   panicked, dispatches, ndisp, reaped, config>>

----------------------------------------------------------------------------
(* Memory syscalls: task.rs push_current_area / release_current_area and
   syscall/process.rs sys_mmap / sys_munmap *)

\* mutant of push_current_area: only the first page of the range is looked at
push_current_area_first_page_only(ms, start_va, end_va, permission) ==
    IF ~judge_allocation(ms, start_va, start_va + 1)
    THEN [ret |-> -1, ms |-> ms]
    ELSE [ret |-> 0, ms |-> insert_framed_area(ms, start_va, end_va, permission)]

\* TaskControlBlock::push_current_area: the result and the address space
push_current_area(ms, start_va, end_va, permission) ==
    IF ~judge_allocation(ms, start_va, end_va)
    THEN [ret |-> -1, ms |-> ms]
    ELSE [ret |-> 0, ms |-> insert_framed_area(ms, start_va, end_va, permission)]

\* mutant of release_current_area: the result of set_munmap is not looked at
release_current_area_ignores_set_munmap(ms, start_va, end_va) ==
    IF ~judge_free(ms, start_va, end_va)
    THEN {[ret |-> -1, ms |-> ms]}
    ELSE IF ~set_munmap_ok(ms, start_va, end_va)
    THEN {[ret |-> 0, ms |-> ms]}
    ELSE {[ret |-> 0, ms |-> set_munmap(ms, start_va, end_va, idx)] :
             idx \in munmap_matches(ms, start_va, end_va)}

\* TaskControlBlock::release_current_area: the results the call can have,
\* each with the address space it leaves
release_current_area(ms, start_va, end_va) ==
    IF ~judge_free(ms, start_va, end_va)
    THEN {[ret |-> -1, ms |-> ms]}
    ELSE IF ~set_munmap_ok(ms, start_va, end_va)
    THEN {[ret |-> -1, ms |-> ms]}
    ELSE {[ret |-> 0, ms |-> set_munmap(ms, start_va, end_va, idx)] :
             idx \in munmap_matches(ms, start_va, end_va)}

\* mutant of mmap_port_invalid: bits above the low three are not looked at
mmap_port_invalid_low_bits_only(port) == port % 8 = 0

\* line 200: _port & 0x7 == 0 || _port & !0x7 != 0
mmap_port_invalid(port) == port % 8 = 0 \/ port \div 8 # 0

\* lines 196 and 226: start_va.page_offset() != 0
mmap_misaligned(start) == page_offset(start) # 0

\* lines 203-212: the MapPermission built from the port bits
mmap_perm(port) ==
    {"U"} \cup (IF port % 2 = 1 THEN {"R"} ELSE {})
          \cup (IF (port \div 2) % 2 = 1 THEN {"W"} ELSE {})
          \cup (IF (port \div 4) % 2 = 1 THEN {"X"} ELSE {})

\* sys_mmap(_start, _len, _port)
sys_mmap(start, len, port) ==
    /\ InSyscall
    /\ start + len <= AddrSpaceEnd
    /\ LET ms == tcb[current].memory_set
           call == [Entry("mmap", current) EXCEPT
                       !.a1 = start, !.a2 = len, !.a3 = port] IN
       IF mmap_misaligned(start) \/ mmap_port_invalid(port)
       THEN /\ tcb' = tcb
            /\ last' = [call EXCEPT !.ret = -1]
       ELSE LET r == push_current_area(ms, start, start + len, mmap_perm(port)) IN
            /\ Len(r.ms.areas) <= MaxAreas
            /\ tcb' = [tcb EXCEPT ![current].memory_set = r.ms]
            /\ last' = [call EXCEPT !.ret = r.ret,
                                    !.pre = IF r.ret = 0 THEN ms ELSE NoMem]
    /\ UNCHANGED <<live, ready_queue, current, pid_current, pid_recycled,
                   panicked, dispatches, ndisp, reaped, config>>

\* sys_munmap(_start, _len)
sys_munmap(start, len) ==
    /\ InSyscall
    /\ start + len <= AddrSpaceEnd
    /\ LET ms == tcb[current].memory_set
           call == [Entry("munmap", current) EXCEPT !.a1 = start, !.a2 = len] IN
       IF mmap_misaligned(start)
       THEN /\ tcb' = tcb
            /\ last' = [call EXCEPT !.ret = -1]
       ELSE \E r \in release_current_area(ms, start, start + len) :
            /\ tcb' = [tcb EXCEPT ![current].memory_set = r.ms]
            /\ last' = [call EXCEPT !.ret = r.ret]
    /\ UNCHANGED <<live, ready_queue, current, pid_current, pid_recycled,
                   panicked, dispatches, ndisp, reaped, config>>

----------------------------------------------------------------------------
(* The heap: task.rs change_program_brk and syscall/process.rs sys_sbrk *)

\* mutant of brk_underflows: the new break is compared with zero
brk_underflows_below_zero(inner, size) == inner.program_brk + size < 0

\* line 417: new_brk < heap_bottom as isize
brk_underflows(inner, size) == inner.program_brk + size < inner.heap_bottom

\* TaskControlBlock::change_program_brk(size): None, or Some(old_break), and
\* the task afterwards
change_program_brk(inner, size) ==
    LET new_brk == inner.program_brk + size IN
    IF brk_underflows(inner, size)
    THEN [some |-> FALSE, old_break |-> 0, inner |-> inner]
    ELSE LET result == IF size < 0
                       THEN shrink_to(inner.memory_set, inner.heap_bottom, new_brk)
                       ELSE append_to(inner.memory_set, inner.heap_bottom, new_brk) IN
         IF result.ok
         THEN [some |-> TRUE, old_break |-> inner.program_brk,
               inner |-> [inner EXCEPT !.memory_set = result.ms,
                                       !.program_brk = new_brk]]
         ELSE [some |-> FALSE, old_break |-> 0,
               inner |-> [inner EXCEPT !.memory_set = result.ms]]

\* sys_sbrk(size).  The heap is followed while it stays below the trap
\* context page and grows over free pages only.
sys_sbrk(size) ==
    /\ InSyscall
    /\ LET inner == tcb[current]
           new_brk == inner.program_brk + size
           r == change_program_brk(inner, size) IN
       /\ new_brk <= UserPages * PAGE_SIZE
       /\ \A v \in AllVpns :
             (r.inner.memory_set.page_table[v] # {} /\ inner.memory_set.page_table[v] # {})
                => r.inner.memory_set.page_table[v] = inner.memory_set.page_table[v]
       /\ tcb' = [tcb EXCEPT ![current] = r.inner]
       /\ last' = [Entry("sbrk", current) EXCEPT
                      !.a1 = size,
                      !.ret = IF r.some THEN r.old_break ELSE -1,
                      !.pre = inner.memory_set]
    /\ UNCHANGED <<live, ready_queue, current, pid_current, pid_recycled,
                   panicked, dispatches, ndisp, reaped, config>>

----------------------------------------------------------------------------
(* File syscalls: syscall/fs.rs and task.rs alloc_fd *)

\* OpenFlags: RDONLY = 0, WRONLY = 1, RDWR = 2, CREATE = 512, TRUNC = 1024;
\* from_bits is None when another bit is set
from_bits_ok(flags) ==
    \E S \in SUBSET {1, 2, 512, 1024} :
        flags = (IF 1 \in S THEN 1 ELSE 0) + (IF 2 \in S THEN 2 ELSE 0)
                + (IF 512 \in S THEN 512 ELSE 0) + (IF 1024 \in S THEN 1024 ELSE 0)
\* OpenFlags::read_write
flags_readable(flags) == flags % 2 = 0
flags_writable(flags) == flags % 4 # 0

\* the files of the file system
Files == {"file"}
\* open_file(path, flags): an inode when the file exists or is to be created
open_file_ok(path, flags) == path \in Files \/ (flags \div 512) % 2 = 1

\* the identity of a newly made file object: one no table refers to
fresh_file_id ==
    LET used == UNION {{tcb[p].fd_table[i].id : i \in 1..Len(tcb[p].fd_table)} :
                          p \in live} IN
    Min({n \in 0..(MaxPid * MaxFd) : n \notin used})

\* TaskControlBlockInner::alloc_fd: the first empty slot, or a new one
alloc_fd(fd_table) ==
    LET empty == {fd \in 0..(Len(fd_table) - 1) : fd_table[fd + 1] = NoFile} IN
    IF empty # {}
    THEN [fd |-> Min(empty), fd_table |-> fd_table]
    ELSE [fd |-> Len(fd_table), fd_table |-> Append(fd_table, NoFile)]

\* sys_open(path, flags)
sys_open(path, flags) ==
    /\ InSyscall
    /\ LET call == [Entry("open", current) EXCEPT !.path = path, !.a2 = flags] IN
       IF ~from_bits_ok(flags)
       THEN \* OpenFlags::from_bits(flags).unwrap()
            /\ panicked' = "unwrap"
            /\ last' = Entry("panic", current)
            /\ tcb' = tcb
       ELSE IF ~open_file_ok(path, flags)
       THEN /\ last' = [call EXCEPT !.ret = -1]
            /\ UNCHANGED <<tcb, panicked>>
       ELSE LET a == alloc_fd(tcb[current].fd_table)
                inode == OSInode(fresh_file_id, flags_readable(flags),
                                 flags_writable(flags)) IN
            /\ Len(a.fd_table) <= MaxFd
            /\ tcb' = [tcb EXCEPT ![current].fd_table =
                                     [a.fd_table EXCEPT ![a.fd + 1] = inode]]
            /\ last' = [call EXCEPT !.ret = a.fd]
            /\ UNCHANGED panicked
    /\ UNCHANGED <<live, ready_queue, current, pid_current, pid_recycled,
                   dispatches, ndisp, reaped, config>>

\* mutant of close_rejects: an empty slot is not refused
close_rejects_out_of_range_only(fd_table, fd) == fd >= Len(fd_table)

\* sys_close, lines 68-73: fd >= len, or the slot is None
close_rejects(fd_table, fd) ==
    fd >= Len(fd_table) \/ fd_table[fd + 1] = NoFile

\* sys_close(fd)
sys_close(fd) ==
    /\ InSyscall
    /\ LET fd_table == tcb[current].fd_table
           call == [Entry("close", current) EXCEPT !.a1 = fd] IN
       IF close_rejects(fd_table, fd)
       THEN /\ tcb' = tcb
            /\ last' = [call EXCEPT !.ret = -1]
       ELSE /\ tcb' = [tcb EXCEPT ![current].fd_table[fd + 1] = NoFile]
            /\ last' = [call EXCEPT !.ret = 0]
    /\ UNCHANGED <<live, ready_queue, current, pid_current, pid_recycled,
                   panicked, dispatches, ndisp, reaped, config>>

\* the byte count File::read / File::write report
IoCounts == {1}

\* mutant of write_result: writable() is not asked
write_result_unchecked(fd_table, fd, n) ==
    IF fd >= Len(fd_table) THEN [ret |-> -1, io |-> "none"]
    ELSE IF fd_table[fd + 1] = NoFile THEN [ret |-> -1, io |-> "none"]
    ELSE [ret |-> n, io |-> "inner released"]

\* sys_write, lines 11-24: the result, and whether file.write was called,
\* which happens after drop(inner); n is what file.write returns
write_result(fd_table, fd, n) ==
    IF fd >= Len(fd_table) THEN [ret |-> -1, io |-> "none"]
    ELSE IF fd_table[fd + 1] = NoFile THEN [ret |-> -1, io |-> "none"]
    ELSE IF ~fd_table[fd + 1].writable THEN [ret |-> -1, io |-> "none"]
    ELSE [ret |-> n, io |-> "inner released"]

\* sys_read, lines 31-46
read_result(fd_table, fd, n) ==
    IF fd >= Len(fd_table) THEN [ret |-> -1, io |-> "none"]
    ELSE IF fd_table[fd + 1] = NoFile THEN [ret |-> -1, io |-> "none"]
    ELSE IF ~fd_table[fd + 1].readable THEN [ret |-> -1, io |-> "none"]
    ELSE [ret |-> n, io |-> "inner released"]

\* sys_write(fd, buf, len)
sys_write(fd) ==
    /\ InSyscall
    /\ \E n \in IoCounts :
          LET r == write_result(tcb[current].fd_table, fd, n) IN
          last' = [Entry("write", current) EXCEPT !.a1 = fd, !.ret = r.ret, !.ord = r.io]
    /\ UNCHANGED <<tcb, live, ready_queue, current, pid_current, pid_recycled,
                   panicked, dispatches, ndisp, reaped, config>>

\* sys_read(fd, buf, len)
sys_read(fd) ==
    /\ InSyscall
    /\ \E n \in IoCounts :
          LET r == read_result(tcb[current].fd_table, fd, n) IN
          last' = [Entry("read", current) EXCEPT !.a1 = fd, !.ret = r.ret, !.ord = r.io]
    /\ UNCHANGED <<tcb, live, ready_queue, current, pid_current, pid_recycled,
                   panicked, dispatches, ndisp, reaped, config>>

\* sys_fstat(_fd, _st): inner.fd_table[_fd] is indexed without a look at the
\* length, which panics when _fd is not below it
sys_fstat(fd) ==
    /\ InSyscall
    /\ LET fd_table == tcb[current].fd_table
           call == [Entry("fstat", current) EXCEPT !.a1 = fd] IN
       IF fd >= Len(fd_table)
       THEN /\ panicked' = "index"
            /\ last' = [Entry("panic", current) EXCEPT !.a1 = fd]
       ELSE IF fd_table[fd + 1] = NoFile
       THEN /\ last' = [call EXCEPT !.ret = -1]
            /\ UNCHANGED panicked
       ELSE /\ last' = [call EXCEPT !.ret = 0, !.out = <<fd_table[fd + 1].id>>]
            /\ UNCHANGED panicked
    /\ UNCHANGED <<tcb, live, ready_queue, current, pid_current, pid_recycled,
                   dispatches, ndisp, reaped, config>>

----------------------------------------------------------------------------
(* Exclusive access: the inner_exclusive_access calls each syscall path makes,
   in the order it makes them.  An event is the taking (acquire) or the drop
   (release) of the RefMut of one task's inner. *)

Acquire(p) == [ev |-> "acquire", of |-> p]
Release(p) == [ev |-> "release", of |-> p]

\* `task.inner_exclusive_access().field`: a temporary dropped at the end of
\* the statement
access(p) == <<Acquire(p), Release(p)>>

\* TaskControlBlock::get_user_token, and current_user_token for the current
\* task
get_user_token(p) == access(p)

\* sys_waitpid lines 102-106: the closure of find takes each child it looks
\* at, up to and with the n-th
find_accesses(children, n) ==
    [k \in 1..(2 * n) |->
        IF k % 2 = 1 THEN Acquire(children[(k + 1) \div 2])
        ELSE Release(children[k \div 2])]

\* File::read / File::write of the console: a read that has to wait suspends
\* the current task, which takes its inner (the reason for the drop(inner)
\* of sys_read and sys_write, "to avoid multi-borrow")
file_io(self) == access(self)

\* mutant of sys_write_accesses: inner is still held when file.write is called
sys_write_accesses_inner_held(self, fd_table, fd) ==
    get_user_token(self) \o <<Acquire(self)>> \o
    (IF write_result(fd_table, fd, 1).io = "none" THEN <<Release(self)>>
     ELSE file_io(self) \o <<Release(self)>>)

\* sys_write lines 8-24
sys_write_accesses(self, fd_table, fd) ==
    get_user_token(self) \o <<Acquire(self)>> \o
    (IF write_result(fd_table, fd, 1).io = "none" THEN <<Release(self)>>
     ELSE <<Release(self)>> \o file_io(self))

\* sys_read lines 29-46
sys_read_accesses(self, fd_table, fd) ==
    get_user_token(self) \o <<Acquire(self)>> \o
    (IF read_result(fd_table, fd, 1).io = "none" THEN <<Release(self)>>
     ELSE <<Release(self)>> \o file_io(self))

\* sys_open lines 51-61: the unwrap of line 54 may end the path
sys_open_accesses(self, path, flags) ==
    get_user_token(self) \o
    (IF from_bits_ok(flags) /\ open_file_ok(path, flags) THEN access(self) ELSE <<>>)

\* sys_close lines 66-75
sys_close_accesses(self) == <<Acquire(self), Release(self)>>

\* sys_fstat lines 85-112: the index of line 89 may end the path with inner
\* held
sys_fstat_accesses(self, fd_table, fd) ==
    get_user_token(self) \o <<Acquire(self)>> \o
    (IF fd >= Len(fd_table) THEN <<>> ELSE <<Release(self)>>)

\* TaskControlBlock::fork lines 254-324, then sys_fork line 62
sys_fork_accesses(self, child) ==
    <<Acquire(self)>> \o access(child) \o <<Release(self)>> \o access(child)

\* sys_exec lines 73-81 and TaskControlBlock::exec line 234
sys_exec_accesses(self, path) ==
    get_user_token(self) \o (IF path \in Apps THEN access(self) ELSE <<>>)

\* sys_spawn lines 259-270 and TaskControlBlock::spawn lines 340, 391, 393
sys_spawn_accesses(self, path, child) ==
    get_user_token(self) \o
    (IF path \in Apps THEN <<Acquire(self), Release(self)>> \o access(child)
     ELSE <<>>)

\* sys_waitpid lines 93-120
sys_waitpid_accesses(self, children, pid) ==
    IF ~waitpid_any(children, pid) THEN <<Acquire(self), Release(self)>>
    ELSE LET idx == waitpid_find(children, pid) IN
         IF idx = 0
         THEN <<Acquire(self)>> \o find_accesses(children, Len(children))
                  \o <<Release(self)>>
         ELSE IF strong_count(children[idx]) # 1
         THEN <<Acquire(self)>> \o find_accesses(children, idx)
         ELSE <<Acquire(self)>> \o find_accesses(children, idx)
                  \o access(children[idx]) \o <<Release(self)>>

\* sys_mmap lines 196-214 and push_current_area lines 44-54
sys_mmap_accesses(self, ms, start, len, port) ==
    IF mmap_misaligned(start) \/ mmap_port_invalid(port) THEN <<>>
    ELSE get_user_token(self) \o
         (IF judge_allocation(ms, start, start + len) THEN access(self) ELSE <<>>)

\* sys_munmap lines 226-231 and release_current_area lines 60-72
sys_munmap_accesses(self, ms, start, len) ==
    IF mmap_misaligned(start) THEN <<>>
    ELSE get_user_token(self) \o
         (IF judge_free(ms, start, start + len) THEN access(self) ELSE <<>>)

\* sys_sbrk and change_program_brk line 413
sys_sbrk_accesses(self) == <<Acquire(self), Release(self)>>

\* sys_set_priority lines 286-294
sys_set_priority_accesses(self, prio) ==
    IF set_priority_rejects(prio) THEN <<>> ELSE <<Acquire(self), Release(self)>>

\* the accesses of the kernel entry `call` (the value `last` takes), made in
\* the state the entry starts in
accesses(call) ==
    LET self == call.caller IN
    IF call.op = "write" THEN sys_write_accesses(self, tcb[self].fd_table, call.a1)
    ELSE IF call.op = "read" THEN sys_read_accesses(self, tcb[self].fd_table, call.a1)
    ELSE IF call.op = "open" THEN sys_open_accesses(self, call.path, call.a2)
    ELSE IF call.op = "close" THEN sys_close_accesses(self)
    ELSE IF call.op = "fstat" THEN sys_fstat_accesses(self, tcb[self].fd_table, call.a1)
    ELSE IF call.op = "fork" THEN sys_fork_accesses(self, call.ret)
    ELSE IF call.op = "exec" THEN sys_exec_accesses(self, call.path)
    ELSE IF call.op = "spawn" THEN sys_spawn_accesses(self, call.path, call.ret)
    ELSE IF call.op = "waitpid"
    THEN sys_waitpid_accesses(self, tcb[self].children, call.a1)
    ELSE IF call.op = "mmap"
    THEN sys_mmap_accesses(self, tcb[self].memory_set, call.a1, call.a2, call.a3)
    ELSE IF call.op = "munmap"
    THEN sys_munmap_accesses(self, tcb[self].memory_set, call.a1, call.a2)
    ELSE IF call.op = "sbrk" THEN sys_sbrk_accesses(self)
    ELSE IF call.op = "set_priority" THEN sys_set_priority_accesses(self, call.a1)
    ELSE <<>>

----------------------------------------------------------------------------
(* The process-lifecycle specification *)

\* pid filters: any child, a negative pid other than -1, the first and the
\* last pid a child can have
WaitPidInputs == {-1, -2, 1, MaxPid - 1}
\* the paths given to spawn in the process-lifecycle runs
SpawnPaths == {"initproc", "missing"}
PrioInputs == {-1, 0, 1, 2, 3}

\* the kernel after start-up: the init task has been created by
\* TaskControlBlock::new and added to the ready queue
Boot(pids, disps, profiles) ==
    /\ tcb = [p \in Pids |-> IF p = INITPROC THEN new("initproc") ELSE FreeTCB]
    /\ live = {INITPROC}
    /\ ready_queue = <<INITPROC>>
    /\ current = NoTask
    /\ pid_current = 1
    /\ pid_recycled = <<>>
    /\ pid_limit = pids
    /\ dispatch_limit = disps
    /\ overflow_checks \in profiles
    /\ panicked = "none"
    /\ dispatches = 0
    /\ ndisp = [p \in Pids |-> 0]
    /\ reaped = {}
    /\ last = Entry("boot", NoTask)

Init == Boot(MaxPid, MaxDispatch, BOOLEAN)

Next ==
    \/ run_tasks
    \/ sys_yield
    \/ \E c \in ExitCodes : sys_exit(c)
    \/ sys_fork(0)
    \/ \E path \in SpawnPaths : sys_spawn(path)
    \/ \E pid \in WaitPidInputs : sys_waitpid(pid)

Spec == Init /\ [][Next]_vars

----------------------------------------------------------------------------
(* The priority specification: task creation, exec and set_priority *)

NextPrio ==
    \/ run_tasks
    \/ sys_yield
    \/ sys_fork(0)
    \/ \E path \in Paths : sys_exec(path)
    \/ \E path \in Paths : sys_spawn(path)
    \/ \E prio \in PrioInputs : sys_set_priority(prio)

InitPrio == Boot(MaxPrioPid, MaxPrioDispatch, BOOLEAN)

SpecPrio == InitPrio /\ [][NextPrio]_vars

----------------------------------------------------------------------------
(* The memory specification: mmap and munmap on the running task *)

\* start addresses: the pages 2 and 3 and an address inside page 3
StartInputs == {2 * PAGE_SIZE, 3 * PAGE_SIZE, 3 * PAGE_SIZE + 8}
\* lengths: nothing, one byte, one page and a byte
LenInputs == {0, 1, PAGE_SIZE + 1}
\* port values: no bit, R, R with a bit above the low three
PortInputs == {0, 1, 9}

\* only the init task runs here, so no two strides are ever compared and the
\* build profile makes no difference
InitMem == Boot(1, MaxMemDispatch, {FALSE})

NextMem ==
    \/ run_tasks
    \/ \E start \in StartInputs, len \in LenInputs, port \in PortInputs :
          sys_mmap(start, len, port)
    \/ \E start \in StartInputs, len \in LenInputs : sys_munmap(start, len)

SpecMem == InitMem /\ [][NextMem]_vars

----------------------------------------------------------------------------
(* The heap specification: sbrk, and exec of the image the task already runs *)

\* a page and half a page, up and down
SbrkInputs == {-PAGE_SIZE, -(PAGE_SIZE \div 2), PAGE_SIZE \div 2, PAGE_SIZE}
HeapPaths == {"initproc", "missing"}

InitHeap == Boot(1, MaxHeapDispatch, {FALSE})

NextHeap ==
    \/ run_tasks
    \/ sys_yield
    \/ \E size \in SbrkInputs : sys_sbrk(size)
    \/ \E path \in HeapPaths : sys_exec(path)

SpecHeap == InitHeap /\ [][NextHeap]_vars

----------------------------------------------------------------------------
(* The fork specification: fork and exec with the trap frames followed *)

\* what the caller's a0 holds when it traps into fork
RegInputs == {0, 7}

InitFork == Boot(MaxForkPid, MaxForkDispatch, {FALSE})

NextFork ==
    \/ run_tasks
    \/ sys_yield
    \/ \E a0 \in RegInputs : sys_fork(a0)
    \/ \E path \in Paths : sys_exec(path)

SpecFork == InitFork /\ [][NextFork]_vars

----------------------------------------------------------------------------
(* The file-descriptor specification: fork, spawn, exec and the file syscalls *)

\* a console slot, the first slot open can add, and one past the table
FdInputs == {0, 3, MaxFd}
OpenPaths == {"file", "missing"}
\* read-only, write-only, and a bit OpenFlags does not have
FlagInputs == {0, 1, 4}
FdSpawnPaths == {"initproc", "missing"}
\* the console slot a task closes, and the mode it opens files in
FdShareInputs == {0}
FdShareFlags == {0}

InitFd == Boot(MaxFdPid, MaxFdDispatch, {FALSE})

NextFd ==
    \/ run_tasks
    \/ sys_yield
    \/ sys_fork(0)
    \/ \E path \in FdSpawnPaths : sys_spawn(path)
    \/ \E flags \in FdShareFlags : sys_open("file", flags)
    \/ \E fd \in FdShareInputs : sys_close(fd)

SpecFd == InitFd /\ [][NextFd]_vars

\* the table t with slot fd (counted from 0) set to file, grown by one slot
\* when fd is its length
WithSlot(t, fd, file) ==
    IF fd = Len(t) THEN Append(t, file) ELSE [t EXCEPT ![fd + 1] = file]

\* C17: right after fork, and after a spawn that made a child, the child's fd
\* table has the length of the parent's and holds in every slot the parent's
\* file object, or nothing exactly where the parent's slot is empty, and the
\* parent's table is as before; the tables are separate: an open or a close
\* changes one slot of the caller's table and no slot of any other task, so
\* the slots the tasks still share keep referring to the same file object.
C17_FdTableShared ==
    [][LET c == last'.caller IN
       /\ (last'.op \in {"fork", "spawn"} /\ last'.ret # -1) =>
             /\ last'.ret \notin live /\ last'.ret \in live'
             /\ Len(tcb'[last'.ret].fd_table) = Len(tcb[c].fd_table)
             /\ \A i \in 1..Len(tcb[c].fd_table) :
                    tcb'[last'.ret].fd_table[i] = tcb[c].fd_table[i]
             /\ tcb'[c].fd_table = tcb[c].fd_table
       /\ last'.op \in {"open", "close"} =>
             /\ \A p \in live \ {c} : tcb'[p].fd_table = tcb[p].fd_table
             /\ last'.ret = -1 => tcb'[c].fd_table = tcb[c].fd_table
             /\ last'.ret # -1 =>
                   \E file \in {NoFile} \cup {OSInode(id, r, w) :
                                   id \in 0..(MaxPid * MaxFd), r \in BOOLEAN, w \in BOOLEAN} :
                       /\ (file = NoFile) = (last'.op = "close")
                       /\ tcb'[c].fd_table =
                             WithSlot(tcb[c].fd_table,
                                      IF last'.op = "close" THEN last'.a1 ELSE last'.ret,
                                      file)]_vars

\* a child closed its slot 0 after fork: its parent still has its standard
\* input there, and both still hold the file the parent opened before fork
C17_Witness ==
    /\ last.op = "close" /\ last.ret = 0 /\ last.a1 = 0
    /\ tcb[last.caller].parent = INITPROC
    /\ tcb[last.caller].fd_table[1] = NoFile
    /\ tcb[INITPROC].fd_table[1] = Stdin(0)
    /\ Len(tcb[INITPROC].fd_table) = 4 /\ Len(tcb[last.caller].fd_table) = 4
    /\ tcb[INITPROC].fd_table[4].kind = "OSInode"
    /\ tcb[last.caller].fd_table[4] = tcb[INITPROC].fd_table[4]

----------------------------------------------------------------------------
(* The exec specification: the init task forks, opens and closes files, and
   execs *)

InitExec == Boot(MaxExecPid, 1, {FALSE})

NextExec ==
    \/ run_tasks
    \/ sys_fork(0)
    \/ \E path \in Paths : sys_exec(path)
    \/ \E flags \in FdShareFlags : sys_open("file", flags)
    \/ \E fd \in FdShareInputs : sys_close(fd)

SpecExec == InitExec /\ [][NextExec]_vars

\* C16: exec of an image that exists replaces only the caller's address space
\* (with its trap-frame page) and trap context: the caller keeps its pid,
\* kernel stack, children in their order and every slot of its file table,
\* no other task changes, and sys_exec returns 0; when the path is not found
\* sys_exec returns -1 and no task changes at all.
C16_ExecFrame ==
    [][last'.op = "exec" =>
         LET c == last'.caller IN
         /\ c = current /\ current' = current /\ live' = live
         /\ last'.ret = (IF last'.path \in Apps THEN 0 ELSE -1)
         /\ last'.ret = -1 => tcb' = tcb
         /\ last'.ret = 0 =>
               /\ tcb'[c].memory_set = from_elf(last'.path)
               /\ tcb'[c].trap_cx.sepc = <<last'.path, "entry">>
               /\ tcb'[c].trap_cx.kernel_sp = tcb[c].kernel_stack
               /\ tcb'[c].kernel_stack = tcb[c].kernel_stack
               /\ tcb'[c].children = tcb[c].children
               /\ tcb'[c].fd_table = tcb[c].fd_table
               /\ tcb' = [tcb EXCEPT ![c].memory_set = tcb'[c].memory_set,
                                     ![c].trap_cx = tcb'[c].trap_cx]]_vars

\* an exec of another image by a task with two children, a file opened in
\* slot 0 and the console in the others
C16_Witness ==
    /\ last.op = "exec" /\ last.ret = 0 /\ last.path = "usertest"
    /\ Len(tcb[last.caller].children) = 2
    /\ tcb[last.caller].fd_table[1].kind = "OSInode"
    /\ tcb[last.caller].fd_table[2] = Stdout(1)
    /\ tcb[last.caller].memory_set = from_elf("usertest")

----------------------------------------------------------------------------
(* The file-access specification: one task and the file syscalls *)

InitIo == Boot(1, MaxIoDispatch, {FALSE})

NextIo ==
    \/ run_tasks
    \/ \E path \in OpenPaths, flags \in FlagInputs : sys_open(path, flags)
    \/ \E fd \in FdInputs : sys_close(fd)
    \/ \E fd \in FdInputs : sys_write(fd)
    \/ \E fd \in FdInputs : sys_read(fd)
    \/ \E fd \in FdInputs : sys_fstat(fd)

SpecIo == InitIo /\ [][NextIo]_vars

\* C18: sys_close(fd) returns -1 and leaves the fd table unchanged when fd is
\* not below the table length or slot fd is already empty; otherwise it
\* returns 0, empties exactly slot fd and leaves every other slot and the
\* length unchanged; so a close of the same fd right after a close that
\* returned 0 returns -1.
C18_Close ==
    [][last'.op = "close" =>
         LET c == last'.caller
             fd == last'.a1
             t == tcb[c].fd_table IN
         /\ c = current
         /\ IF fd >= Len(t) \/ t[fd + 1] = NoFile
            THEN last'.ret = -1 /\ tcb' = tcb
            ELSE /\ last'.ret = 0
                 /\ Len(tcb'[c].fd_table) = Len(t)
                 /\ tcb'[c].fd_table[fd + 1] = NoFile
                 /\ \A i \in 1..Len(t) :
                        i # fd + 1 => tcb'[c].fd_table[i] = t[i]
                 /\ tcb' = [tcb EXCEPT ![c].fd_table = tcb'[c].fd_table]
         /\ (last.op = "close" /\ last.ret = 0 /\ last.caller = c /\ last.a1 = fd)
               => last'.ret = -1]_vars

\* a file was opened in slot 3 and closed, and closing slot 3 again is refused
C18_Witness ==
    /\ last.op = "close" /\ last.ret = -1 /\ last.a1 = 3
    /\ Len(tcb[last.caller].fd_table) = 4
    /\ tcb[last.caller].fd_table[4] = NoFile
    /\ tcb[last.caller].fd_table[1] = Stdin(0)

\* C19: sys_write(fd) returns -1 when fd is not below the table length, when
\* slot fd is empty or when the file is not writable, and sys_read(fd) does
\* with readable; the fd table (the whole task table) is left unchanged in
\* these cases and on success, and the file's write or read is called only
\* when none of them holds, after the task's inner has been released.
C19_WriteRead ==
    [][last'.op \in {"write", "read"} =>
         LET c == last'.caller
             fd == last'.a1
             t == tcb[c].fd_table
             bad == \/ fd >= Len(t)
                    \/ t[fd + 1] = NoFile
                    \/ (last'.op = "write" /\ ~t[fd + 1].writable)
                    \/ (last'.op = "read" /\ ~t[fd + 1].readable) IN
         /\ c = current
         /\ tcb' = tcb
         /\ bad => (last'.ret = -1 /\ last'.ord = "none")
         /\ ~bad => (last'.ret \in IoCounts /\ last'.ord = "inner released")]_vars

\* a write to a file opened read-only is refused, the table being unchanged
C19_Witness ==
    /\ last.op = "write" /\ last.ret = -1 /\ last.a1 = 3
    /\ Len(tcb[last.caller].fd_table) = 4
    /\ tcb[last.caller].fd_table[4].kind = "OSInode"
    /\ tcb[last.caller].fd_table[4].readable
    /\ ~tcb[last.caller].fd_table[4].writable

\* C20: a bad file descriptor never stops the kernel: sys_fstat(fd, st)
\* returns -1 for every fd that is not below the fd-table length and for
\* every fd whose slot is empty; no step of sys_fstat ends in a panic.
C20_FstatBadFdIsMinusOne ==
    [][/\ (last'.op = "panic" /\ last'.caller # NoTask) =>
             ~(panicked' = "index" /\ last'.a1 >= Len(tcb[last'.caller].fd_table))
       /\ last'.op = "fstat" =>
             LET t == tcb[last'.caller].fd_table IN
             (last'.a1 >= Len(t) \/ t[last'.a1 + 1] = NoFile) <=> last'.ret = -1]_vars

\* the lowest-numbered empty slot of a table, its length when none is empty
LowestEmpty(t) ==
    Min({fd \in 0..Len(t) : fd = Len(t) \/ t[fd + 1] = NoFile})

\* what C24 says of a sys_open that returned
OpenReturns ==
    last'.op = "open" =>
       LET c == last'.caller
           t == tcb[c].fd_table
           t2 == tcb'[c].fd_table
           fd == last'.ret IN
       IF fd = -1
       THEN tcb' = tcb
       ELSE /\ fd = LowestEmpty(t)
            /\ Len(t2) = (IF fd = Len(t) THEN Len(t) + 1 ELSE Len(t))
            /\ t2[fd + 1].kind = "OSInode"
            /\ \A p \in live : \A i \in 1..Len(tcb[p].fd_table) :
                   tcb[p].fd_table[i].id # t2[fd + 1].id
            /\ \A i \in 1..Len(t) : i # fd + 1 => t2[i] = t[i]
            /\ tcb' = [tcb EXCEPT ![c].fd_table = t2]

\* C24: for every path and every flags value sys_open either returns -1 and
\* leaves the fd table unchanged, or returns the lowest-numbered empty slot
\* (the table growing by one slot only when none is empty), which was empty
\* and now holds the newly opened file, every other slot being unchanged; it
\* does one of the two, so no sys_open ends the kernel path.
C24_OpenLowestEmptySlot ==
    [][/\ OpenReturns
       /\ ~(last'.op = "panic" /\ panicked' = "unwrap")]_vars

----------------------------------------------------------------------------
(* The separation specification: a task and its forked child each exec, map,
   unmap, move the break, open and close *)

\* the last user page, one byte long
AliasStart == (UserPages - 1) * PAGE_SIZE

InitAlias == Boot(MaxAliasPid, MaxAliasDispatch, {FALSE})

\* each task is followed through one growth of its heap, a mapping made and
\* removed above it, one exec, and one file opened in place of its standard
\* input
HeapGrown(t) == t.program_brk > t.heap_bottom
NextAlias ==
    \/ run_tasks
    \/ sys_yield
    \/ sys_fork(0)
    \/ (current # NoTask /\ ~HeapGrown(tcb[current]) /\ sys_sbrk(PAGE_SIZE))
    \/ (current # NoTask /\ HeapGrown(tcb[current]) /\ sys_mmap(AliasStart, 1, 1))
    \/ sys_munmap(AliasStart, 1)
    \/ (current # NoTask /\ HeapGrown(tcb[current])
           /\ tcb[current].trap_cx.sepc[1] = "initproc" /\ sys_exec("usertest"))
    \/ (current # NoTask /\ tcb[current].fd_table[1] = NoFile
           /\ \E flags \in FdShareFlags : sys_open("file", flags))
    \/ \E fd \in FdShareInputs : sys_close(fd)
SpecAlias == InitAlias /\ [][NextAlias]_vars

----------------------------------------------------------------------------
(* The spawn specification: tasks spawn images, map a page, exit and are
   waited for *)

InitSpawn == Boot(MaxSpawnPid, MaxSpawnDispatch, {FALSE})

NextSpawn ==
    \/ run_tasks
    \/ sys_yield
    \/ sys_exit(0)
    \/ sys_waitpid(-1)
    \/ \E path \in Paths : sys_spawn(path)
    \/ sys_mmap(AliasStart, 1, 1)

SpecSpawn == InitSpawn /\ [][NextSpawn]_vars

\* C21: sys_spawn(path) of a path that is not found returns -1 and allocates
\* nothing: no pid is consumed and no task, children list or the ready queue
\* changes.  Of a path that is found it makes exactly one new task, with a pid
\* no existing task has, whose address space is built from the image (the
\* caller's is unchanged), whose parent is the caller, which is appended at
\* the end of the caller's children and of the ready queue; it returns the
\* new pid.
C21_Spawn ==
    [][last'.op = "spawn" =>
         LET c == last'.caller
             new_pid == last'.ret IN
         /\ c = current /\ current' = current
         /\ (new_pid = -1) = (last'.path \notin Apps)
         /\ new_pid = -1 =>
               /\ tcb' = tcb /\ live' = live /\ ready_queue' = ready_queue
               /\ pid_current' = pid_current /\ pid_recycled' = pid_recycled
         /\ new_pid # -1 =>
               /\ new_pid \in Pids \ live
               /\ live' = live \cup {new_pid}
               /\ tcb'[new_pid].memory_set = from_elf(last'.path)
               /\ tcb'[new_pid].parent = c
               /\ tcb'[c].children = Append(tcb[c].children, new_pid)
               /\ tcb'[c].memory_set = tcb[c].memory_set
               /\ ready_queue' = Append(ready_queue, new_pid)
               /\ \A p \in Pids \ {new_pid} :
                      tcb'[p] = [tcb[p] EXCEPT !.children = tcb'[p].children]]_vars

\* a task that mapped a page and has a child spawns another image: the new
\* task is its second child, has a recycled pid and the image's address space
C21_Witness ==
    /\ last.op = "spawn" /\ last.path = "usertest" /\ last.ret # -1
    /\ Len(tcb[last.caller].children) = 2
    /\ tcb[last.caller].children[2] = last.ret
    /\ last.ret < pid_current - 1
    /\ tcb[last.caller].memory_set # from_elf("initproc")
    /\ tcb[last.ret].memory_set = from_elf("usertest")
    /\ tcb[last.ret].memory_set # from_existed_user(tcb[last.caller].memory_set)

----------------------------------------------------------------------------
(* The creation specification: tasks that have changed their priority, been
   charged strides and counted syscalls fork and spawn *)

NewPrioInputs == {3}
NewSyscallInputs == {MAX_SYSCALL_NUM - 1}
NewSpawnPaths == {"usertest", "missing"}

InitNew == Boot(MaxNewPid, MaxNewDispatch, {FALSE})

NextNew ==
    \/ run_tasks
    \/ sys_yield
    \/ sys_fork(0)
    \/ \E path \in NewSpawnPaths : sys_spawn(path)
    \/ \E prio \in NewPrioInputs : sys_set_priority(prio)
    \/ \E sys_num \in NewSyscallInputs : add_one_syscall(sys_num)

SpecNew == InitNew /\ [][NextNew]_vars

\* what every constructor writes
Fresh(t) ==
    /\ t.status = "Ready" /\ t.exit_code = 0 /\ t.children = <<>>
    /\ t.taskinfo.stride = 0 /\ t.taskinfo.priority = 16
    /\ t.taskinfo.pass = BIG_STRIDE \div 16
    /\ t.taskinfo.time = 0
    /\ \A n \in SyscallNums : t.taskinfo.syscall_times[n] = 0

\* C22: the task made by new (the one the kernel starts with) and every task
\* made by fork or spawn starts Ready, with exit code 0, no children, stride
\* 0, priority 16, pass BIG_STRIDE/16, time 0 and all syscall counters 0,
\* whatever the priority, stride and counters of the task that made it.
C22_CreatedFresh ==
    /\ last.op = "boot" => Fresh(tcb[INITPROC])
    /\ (last.op \in {"fork", "spawn"} /\ last.ret # -1) => Fresh(tcb[last.ret])

\* a task with a child, priority 3, a stride and a counted syscall has just
\* forked
C22_Witness ==
    /\ last.op = "fork"
    /\ Len(tcb[last.caller].children) = 2
    /\ tcb[last.caller].taskinfo.priority = 3
    /\ tcb[last.caller].taskinfo.stride > 0
    /\ tcb[last.caller].taskinfo.syscall_times[MAX_SYSCALL_NUM - 1] > 0
    /\ tcb[last.ret].taskinfo.priority = 16

InitKeep == Boot(MaxKeepPid, MaxKeepDispatch, {FALSE})

\* a task moves its break once, under the image it started with
NextKeep ==
    \/ run_tasks
    \/ sys_yield
    \/ sys_fork(0)
    \/ \E path \in NewSpawnPaths : sys_exec(path)
    \/ \E prio \in NewPrioInputs : sys_set_priority(prio)
    \/ \E sys_num \in NewSyscallInputs : add_one_syscall(sys_num)
    \/ (current # NoTask /\ ~HeapGrown(tcb[current])
           /\ tcb[current].trap_cx.sepc[1] = "initproc" /\ sys_sbrk(PAGE_SIZE))

SpecKeep == InitKeep /\ [][NextKeep]_vars

\* C27: exec changes nothing besides the address space and the trap context:
\* heap_bottom, program_brk and base_size keep the values they had under the
\* old image, and status, exit code, parent, priority, pass, stride, time and
\* syscall counters are the same before and after.
C27_ExecKeepsHeapAndInfo ==
    [][(last'.op = "exec" /\ last'.ret = 0) =>
         LET c == last'.caller IN
         /\ tcb'[c].heap_bottom = tcb[c].heap_bottom
         /\ tcb'[c].program_brk = tcb[c].program_brk
         /\ tcb'[c].base_size = tcb[c].base_size
         /\ tcb'[c].status = tcb[c].status
         /\ tcb'[c].exit_code = tcb[c].exit_code
         /\ tcb'[c].parent = tcb[c].parent
         /\ tcb'[c].taskinfo = tcb[c].taskinfo]_vars

\* a child with a moved break, priority 3, a stride and a counted syscall
\* has exec'ed an image whose user stack top is not its heap bottom
C27_Witness ==
    /\ last.op = "exec" /\ last.ret = 0 /\ last.path = "usertest"
    /\ tcb[last.caller].parent = INITPROC
    /\ tcb[last.caller].memory_set = from_elf("usertest")
    /\ tcb[last.caller].heap_bottom = user_sp_of("initproc")
    /\ tcb[last.caller].heap_bottom # user_sp_of("usertest")
    /\ tcb[last.caller].program_brk = tcb[last.caller].heap_bottom + PAGE_SIZE
    /\ tcb[last.caller].base_size = user_sp_of("initproc")
    /\ tcb[last.caller].taskinfo.priority = 3
    /\ tcb[last.caller].taskinfo.stride > 0
    /\ tcb[last.caller].taskinfo.syscall_times[MAX_SYSCALL_NUM - 1] > 0

----------------------------------------------------------------------------
(* The access specification: every syscall that takes a task's inner, on
   tasks with children that run, exit and are waited for *)

AccessFds == {0, 1}
AccessStatFds == {0, MaxFd}
AccessPaths == {"initproc", "missing"}
AccessPrios == {1, DEFAULT_PRIORITY}

InitAccess == Boot(MaxAccessPid, MaxAccessDispatch, {FALSE})

\* the address space and the file table are changed by the init task while
\* it has no child; the tasks it makes then start from what it has made of
\* them
Childless == current = INITPROC /\ tcb[INITPROC].children = <<>>

NextAccess ==
    \/ run_tasks
    \/ sys_yield
    \/ sys_exit(0)
    \/ sys_fork(0)
    \/ \E path \in AccessPaths : sys_exec(path)
    \/ \E path \in AccessPaths : sys_spawn(path)
    \/ sys_waitpid(-1)
    \/ (Childless /\ sys_mmap(AliasStart, 1, 1))
    \/ (Childless /\ sys_munmap(AliasStart, 1))
    \/ sys_sbrk(0)
    \/ \E prio \in AccessPrios : sys_set_priority(prio)
    \/ (Childless /\ tcb[current].fd_table[1] = NoFile
           /\ \E path \in OpenPaths : sys_open(path, 0))
    \/ (Childless /\ sys_close(0))
    \/ \E fd \in AccessFds : sys_write(fd)
    \/ \E fd \in AccessFds : sys_read(fd)
    \/ \E fd \in AccessStatFds : sys_fstat(fd)

SpecAccess == InitAccess /\ [][NextAccess]_vars

\* the tasks whose inner is held just before the k-th event of a trace
HeldBefore(trace, k) ==
    {p \in Pids : \E i \in 1..(k - 1) :
        /\ trace[i] = Acquire(p)
        /\ \A j \in (i + 1)..(k - 1) : trace[j] # Release(p)}

\* no inner is taken while it is held; an inner taken while another is held
\* is a child's taken under the caller's, and it is dropped before the next
\* one is taken
WellNested(trace, self) ==
    \A k \in 1..Len(trace) :
        /\ trace[k].ev = "acquire" =>
              /\ trace[k].of \notin HeldBefore(trace, k)
              /\ HeldBefore(trace, k) \subseteq {self}
        /\ trace[k].ev = "release" => trace[k].of \in HeldBefore(trace, k)

AccessOps ==
    {"read", "write", "open", "close", "fstat", "fork", "exec", "spawn",
     "waitpid", "mmap", "munmap", "sbrk", "set_priority"}

\* C23: along every syscall path (read, write, open, close, fstat, fork, exec,
\* spawn, waitpid, mmap, munmap, sbrk, set_priority) inner_exclusive_access is
\* never called on a task whose inner is still held; an access to a child's
\* inner made while the parent's is held is on another task and is released
\* before the next access is made.
C23_NoReentrantAccess ==
    [][last'.op \in AccessOps =>
         \A trace \in {accesses(last')} : WellNested(trace, last'.caller)]_vars

\* a waitpid that took the caller's inner, looked at its child under it and
\* reaped it
C23_Witness ==
    /\ last.op = "waitpid" /\ last.ret >= 1
    /\ last.ret \notin live
    /\ tcb[last.caller].children = <<>>

----------------------------------------------------------------------------
(* The comparison specification: Stride::partial_cmp on two stride values *)

StrideValues == 0..(USIZE_MOD - 1)

InitStride ==
    /\ tcb = [p \in Pids |-> IF p = INITPROC THEN new("initproc") ELSE FreeTCB]
    /\ live = {INITPROC}
    /\ ready_queue = <<INITPROC>>
    /\ current = NoTask
    /\ pid_current = 1
    /\ pid_recycled = <<>>
    /\ pid_limit = MaxPid
    /\ dispatch_limit = 0
    /\ overflow_checks \in BOOLEAN
    /\ panicked = "none"
    /\ dispatches = 0
    /\ ndisp = [p \in Pids |-> 0]
    /\ reaped = {}
    /\ \E a \in StrideValues, b \in StrideValues :
          last = [Entry("strides", NoTask) EXCEPT !.a1 = a, !.a2 = b]

\* Stride(a).partial_cmp(&Stride(b)) is evaluated
stride_compare ==
    /\ last.op = "strides"
    /\ last' = [last EXCEPT !.op = "partial_cmp",
                            !.ord = partial_cmp(last.a1, last.a2, overflow_checks)]
    /\ UNCHANGED <<tcb, live, ready_queue, current, pid_current, pid_recycled,
                   panicked, dispatches, ndisp, reaped, config>>

\* Stride(b).partial_cmp(&Stride(a)), the same pair the other way round
stride_compare_swapped ==
    /\ last.op = "strides"
    /\ last' = [last EXCEPT !.op = "partial_cmp", !.a1 = last.a2, !.a2 = last.a1,
                            !.ord = partial_cmp(last.a2, last.a1, overflow_checks)]
    /\ UNCHANGED <<tcb, live, ready_queue, current, pid_current, pid_recycled,
                   panicked, dispatches, ndisp, reaped, config>>

NextStride == stride_compare \/ stride_compare_swapped

SpecStride == InitStride /\ [][NextStride]_vars

----------------------------------------------------------------------------
(* The proportional-share specification: two tasks that are always ready *)

SharePriorities == {2, 4, 8, 16}

\* The init task and its child have each been dispatched once and have each
\* set a priority, and both are back in the ready queue; the dispatches are
\* counted from here.
InitShare ==
    /\ \E p0 \in SharePriorities, p1 \in SharePriorities :
          /\ p0 # p1
          /\ tcb = [p \in Pids |->
                      IF p = INITPROC
                      THEN [new("initproc") EXCEPT
                              !.children = <<1>>,
                              !.taskinfo = set_priority_taskinfo(
                                               add_stride(InitialTaskInfo), p0)]
                      ELSE IF p = 1
                      THEN [fork_child(INITPROC, new("initproc"), 1) EXCEPT
                              !.taskinfo = set_priority_taskinfo(
                                               add_stride(InitialTaskInfo), p1)]
                      ELSE FreeTCB]
    /\ live = {INITPROC, 1}
    /\ ready_queue = <<INITPROC, 1>>
    /\ current = NoTask
    /\ pid_current = 2
    /\ pid_recycled = <<>>
    /\ pid_limit = 2
    /\ dispatch_limit = MaxShareDispatch
    /\ overflow_checks \in BOOLEAN
    /\ panicked = "none"
    /\ dispatches = 0
    /\ ndisp = [p \in Pids |-> 0]
    /\ reaped = {}
    /\ last = Entry("boot", NoTask)

\* run_tasks, with the dispatch counted for the task it chose
run_tasks_counted ==
    /\ dispatches < dispatch_limit
    /\ run_tasks_step
    /\ dispatches' = dispatches + 1
    /\ ndisp' = IF last'.op = "dispatch"
                THEN [ndisp EXCEPT ![last'.caller] = @ + 1]
                ELSE ndisp
    /\ UNCHANGED reaped

NextShare == run_tasks_counted \/ sys_yield

SpecShare == InitShare /\ [][NextShare]_vars

----------------------------------------------------------------------------
(* Properties of sys_waitpid *)

\* what the contract asks of waitpid(pid) called by task T, read off the
\* state before the call
WaitpidMatching(T, pid) ==
    {i \in 1..Len(tcb[T].children) : pid = -1 \/ tcb[T].children[i] = pid}
WaitpidReapable(T, pid) ==
    {i \in WaitpidMatching(T, pid) : tcb[tcb[T].children[i]].status = "Zombie"}

\* C1: sys_waitpid returns -1 when no child matches the pid filter, -2 when a
\* child matches but no matching child is Zombie, and otherwise the pid of the
\* first matching Zombie child in list order, storing that child's exit code
\* through the pointer.
C1_WaitpidResult ==
    [][last'.op = "waitpid" =>
        LET T == last'.caller
            pid == last'.a1 IN
        IF WaitpidMatching(T, pid) = {} THEN last'.ret = -1
        ELSE IF WaitpidReapable(T, pid) = {} THEN last'.ret = -2
        ELSE LET child == tcb[T].children[Min(WaitpidReapable(T, pid))] IN
             /\ last'.ret = child
             /\ last'.out = <<tcb[child].exit_code>>]_vars

\* a waitpid(-1) that returned a Zombie child with exit code 7 while a later
\* child of the caller is a Zombie too
C1_Witness ==
    /\ last.op = "waitpid" /\ last.a1 = -1 /\ last.ret \in Pids
    /\ last.out = <<7>>
    /\ \E i \in 1..Len(tcb[last.caller].children) :
          tcb[tcb[last.caller].children[i]].status = "Zombie"

\* C2 as stated: -1 and -2 leave the children list alone, a returned pid is
\* removed from it with the other children kept in order, and a pid once
\* returned to a parent is never returned to that parent again.
C2_ReapedNeverReturnedAgain ==
    [][last'.op = "waitpid" =>
        LET T == last'.caller
            before == tcb[T].children
            after == tcb'[T].children IN
        /\ last'.ret \in {-1, -2} => after = before
        /\ last'.ret >= 0 =>
              /\ \E i \in 1..Len(before) :
                    before[i] = last'.ret /\ after = RemoveAt(before, i)
              /\ <<T, last'.ret>> \notin reaped]_vars

\* C2 amended: -1 and -2 leave the children list alone; a returned pid was in
\* the list, is removed from it, and the other children keep their order, so
\* the pid can be returned again only for a new child that is given it.
C2_WaitpidFrame ==
    [][last'.op = "waitpid" =>
        LET T == last'.caller
            before == tcb[T].children
            after == tcb'[T].children IN
        /\ last'.ret \in {-1, -2} => after = before
        /\ last'.ret >= 0 =>
              /\ \E i \in 1..Len(before) :
                    before[i] = last'.ret /\ after = RemoveAt(before, i)
              /\ last'.ret \notin Range(after)]_vars

\* a waitpid that reaped the second child of the caller and left the first,
\* which is not a Zombie, in the list
C2_Witness ==
    /\ last.op = "waitpid" /\ last.ret \in Pids
    /\ Len(tcb[last.caller].children) = 1
    /\ tcb[tcb[last.caller].children[1]].status # "Zombie"
    /\ tcb[last.caller].children[1] < last.ret

\* C25: the reference-count assertion of sys_waitpid never fails: whenever a
\* waitpid selects a Zombie child, the only owner of that child is the
\* caller's children list, where it occurs once: it is not in the ready
\* queue, not the current task and in no other task's children; removing it
\* from the list reclaims it.
C25_ZombieOwnedByParentOnly ==
    [][/\ ~(last'.op = "panic" /\ panicked' = "assert")
       /\ (last'.op = "waitpid" /\ last'.ret >= 0) =>
             LET c == last'.caller
                 child == last'.ret IN
             /\ tcb[child].status = "Zombie"
             /\ Occurrences(tcb[c].children, child) = 1
             /\ Occurrences(ready_queue, child) = 0
             /\ current # child
             /\ \A q \in live \ {c} : child \notin Range(tcb[q].children)
             /\ strong_count(child) = 1
             /\ child \notin Range(tcb'[c].children)
             /\ child \notin live' /\ tcb'[child] = FreeTCB]_vars

\* a task reaped its second child, which had been dispatched from the ready
\* queue and had exited, while its first child was still in the ready queue
C25_Witness ==
    /\ last.op = "waitpid" /\ last.ret >= 0
    /\ last.ret \notin live
    /\ Len(tcb[last.caller].children) = 1
    /\ tcb[last.caller].children[1] < last.ret
    /\ tcb[last.caller].children[1] \in Range(ready_queue)

----------------------------------------------------------------------------
(* Properties of sys_set_priority *)

\* C3: set_priority(p) with p <= 1 returns -1 and changes neither priority nor
\* pass; with p >= 2 it returns p, sets priority = p and pass = BIG_STRIDE / p
\* and keeps the stride; the next dispatch of the task adds the pass it has
\* then.
C3_SetPriority ==
    [][/\ last'.op = "set_priority" =>
            LET T == last'.caller
                p == last'.a1 IN
            IF p <= 1
            THEN /\ last'.ret = -1
                 /\ tcb'[T].taskinfo = tcb[T].taskinfo
            ELSE /\ last'.ret = p
                 /\ tcb'[T].taskinfo.priority = p
                 /\ tcb'[T].taskinfo.pass = BIG_STRIDE \div p
                 /\ tcb'[T].taskinfo.stride = tcb[T].taskinfo.stride
       /\ last'.op = "dispatch" =>
            LET T == last'.caller IN
            tcb'[T].taskinfo.stride =
                (tcb[T].taskinfo.stride + tcb[T].taskinfo.pass) % USIZE_MOD]_vars

\* a task that took priority 3 has been dispatched again with the new pass
C3_Witness ==
    /\ last.op = "dispatch"
    /\ tcb[last.caller].taskinfo.priority = 3
    /\ tcb[last.caller].taskinfo.stride =
          BIG_STRIDE \div DEFAULT_PRIORITY + BIG_STRIDE \div 3

\* C7: every task has priority >= 2 and pass = BIG_STRIDE / priority.
C7_PriorityPass ==
    \A p \in live :
        /\ tcb[p].taskinfo.priority >= 2
        /\ tcb[p].taskinfo.pass = BIG_STRIDE \div tcb[p].taskinfo.priority

\* a rejected set_priority on a task whose priority an earlier call changed,
\* beside a child that still has the default priority
C7_Witness ==
    /\ last.op = "set_priority" /\ last.ret = -1
    /\ tcb[last.caller].taskinfo.priority \in {2, 3}
    /\ \E p \in live : p # last.caller /\ tcb[p].taskinfo.priority = DEFAULT_PRIORITY

----------------------------------------------------------------------------
(* Properties of the Stride comparison and of the stride scheduler *)

AbsDiff(a, b) == IF a >= b THEN a - b ELSE b - a

\* C4: for two stride values whose difference is at most BIG_STRIDE / 2,
\* Stride::partial_cmp(a, b) gives the ordinary numeric order of a and b.
C4_CmpAgreesWithinHalf ==
    (last.op = "partial_cmp" /\ AbsDiff(last.a1, last.a2) <= BIG_STRIDE \div 2)
        => last.ord = cmp(last.a1, last.a2)

\* C5: for two stride values whose difference exceeds BIG_STRIDE / 2,
\* Stride::partial_cmp(a, b) gives the reverse of the numeric order: the
\* numerically larger value compares as the smaller.
C5_CmpReversedBeyondHalf ==
    (last.op = "partial_cmp" /\ AbsDiff(last.a1, last.a2) > BIG_STRIDE \div 2)
        => last.ord = cmp(last.a2, last.a1)

\* C6: with two always-ready tasks dispatched by minimum stride, the charged
\* virtual times n1 * pass1 and n2 * pass2 never differ by more than the
\* larger pass.
C6_ShareGapBounded ==
    LET c0 == ndisp[INITPROC] * tcb[INITPROC].taskinfo.pass
        c1 == ndisp[1] * tcb[1].taskinfo.pass IN
    AbsDiff(c0, c1) <= Max({tcb[INITPROC].taskinfo.pass, tcb[1].taskinfo.pass})

\* the distance of two strides on the circle of usize values
StrideDistance(a, b) == Min({wrapping_sub(a, b), wrapping_sub(b, a)})

\* C26: in every reachable state the strides of any two Ready tasks differ by
\* at most BIG_STRIDE/2, whatever dispatches, sys_set_priority calls and
\* fork / spawn calls (which add a task with stride 0) came before.
C26_ReadyStridesWithinHalf ==
    \A p \in live : \A q \in live :
        (tcb[p].status = "Ready" /\ tcb[q].status = "Ready") =>
            StrideDistance(tcb[p].taskinfo.stride, tcb[q].taskinfo.stride)
                <= BIG_STRIDE \div 2

----------------------------------------------------------------------------
(* Properties of sys_mmap and sys_munmap *)

\* the byte range [start, start + len) touches a page that is mapped in ms
OverlapsMapped(ms, start, len) ==
    \E v \in AllVpns :
        /\ ms.page_table[v] # {}
        /\ v * PAGE_SIZE < start + len
        /\ (v + 1) * PAGE_SIZE > start

\* C8: a sys_mmap over a range that overlaps an already mapped page returns
\* -1 and leaves the regions and the page mappings as they were.
C8_MmapOverlapRejected ==
    [][(last'.op = "mmap"
        /\ OverlapsMapped(tcb[last'.caller].memory_set, last'.a1, last'.a2))
       => /\ last'.ret = -1
          /\ tcb'[last'.caller].memory_set = tcb[last'.caller].memory_set]_vars

\* an aligned mmap with valid permission bits was rejected although its first
\* page was free: only its second page was mapped
C8_Witness ==
    /\ last.op = "mmap" /\ last.ret = -1
    /\ page_offset(last.a1) = 0 /\ last.a3 = 1
    /\ tcb[last.caller].memory_set.page_table[floor(last.a1)] = {}
    /\ tcb[last.caller].memory_set.page_table[floor(last.a1) + 1] # {}
    /\ last.a2 > PAGE_SIZE

\* C9: sys_mmap returns -1 and leaves the address space as it was when start
\* is not page-aligned, when none of the low three port bits is set, or when
\* a port bit outside the low three is set.
C9_MmapBadArguments ==
    [][(last'.op = "mmap"
        /\ (\/ last'.a1 % PAGE_SIZE # 0
            \/ last'.a3 % 8 = 0
            \/ last'.a3 >= 8))
       => /\ last'.ret = -1
          /\ tcb'[last'.caller].memory_set = tcb[last'.caller].memory_set]_vars

\* an mmap of free pages was rejected for a port bit above the low three
C9_Witness ==
    /\ last.op = "mmap" /\ last.ret = -1 /\ last.a3 = 9
    /\ page_offset(last.a1) = 0 /\ last.a2 > 0
    /\ ~OverlapsMapped(tcb[last.caller].memory_set, last.a1, last.a2)

TouchesUnmapped(ms, start, len) ==
    \E v \in AllVpns :
        /\ ms.page_table[v] = {}
        /\ v * PAGE_SIZE < start + len
        /\ (v + 1) * PAGE_SIZE > start

\* no region of ms covers exactly the pages of [start, start + len)
NoRegionWithBounds(ms, start, len) ==
    \A i \in 1..Len(ms.areas) :
        \/ ms.areas[i].start # start \div PAGE_SIZE
        \/ ms.areas[i].end # (start + len + PAGE_SIZE - 1) \div PAGE_SIZE

\* C11: sys_munmap returns -1 and leaves the address space as it was when
\* start is not page-aligned, when some page of the range is not mapped, or
\* when no region has exactly the given bounds.
C11_MunmapRejects ==
    [][(last'.op = "munmap"
        /\ LET ms == tcb[last'.caller].memory_set IN
           \/ last'.a1 % PAGE_SIZE # 0
           \/ TouchesUnmapped(ms, last'.a1, last'.a2)
           \/ NoRegionWithBounds(ms, last'.a1, last'.a2))
       => /\ last'.ret = -1
          /\ tcb'[last'.caller].memory_set = tcb[last'.caller].memory_set]_vars

\* a munmap of the first page of a two-page region was rejected: the page is
\* mapped, but no region has these bounds
C11_Witness ==
    /\ last.op = "munmap" /\ last.ret = -1
    /\ last.a1 % PAGE_SIZE = 0 /\ last.a2 = 1
    /\ ~TouchesUnmapped(tcb[last.caller].memory_set, last.a1, last.a2)
    /\ \E i \in 1..Len(tcb[last.caller].memory_set.areas) :
          LET a == tcb[last.caller].memory_set.areas[i] IN
          a.start = last.a1 \div PAGE_SIZE /\ a.end = a.start + 2

----------------------------------------------------------------------------
(* Properties of sys_sbrk *)

\* C12: sbrk(delta) with program_brk + delta < heap_bottom returns -1 and
\* changes neither program_brk nor the address space; otherwise it returns
\* the old program_brk and commits program_brk = old + delta when the heap
\* region can be resized, and returns -1 with program_brk unchanged when it
\* cannot; heap_bottom is never changed by it and program_brk stays at or
\* above heap_bottom.
C12_SbrkResult ==
    [][last'.op = "sbrk" =>
        LET T == last'.caller
            old == tcb[T].program_brk
            delta == last'.a1 IN
        /\ tcb'[T].heap_bottom = tcb[T].heap_bottom
        /\ tcb'[T].program_brk >= tcb'[T].heap_bottom
        /\ IF old + delta < tcb[T].heap_bottom
           THEN /\ last'.ret = -1
                /\ tcb'[T].program_brk = old
                /\ tcb'[T].memory_set = tcb[T].memory_set
           ELSE IF \E i \in 1..Len(tcb[T].memory_set.areas) :
                      tcb[T].memory_set.areas[i].start = tcb[T].heap_bottom \div PAGE_SIZE
           THEN last'.ret = old /\ tcb'[T].program_brk = old + delta
           ELSE last'.ret = -1 /\ tcb'[T].program_brk = old]_vars

\* an sbrk that would take the break below heap_bottom was refused after the
\* heap had grown: the break is half a page above heap_bottom
C12_Witness ==
    /\ last.op = "sbrk" /\ last.ret = -1 /\ last.a1 = -PAGE_SIZE
    /\ tcb[last.caller].program_brk = tcb[last.caller].heap_bottom + PAGE_SIZE \div 2

\* C13: sbrk(+4096) followed by sbrk(-4096) restores program_brk, and the
\* second call unmaps exactly the page the first call mapped, so the mapped
\* pages are those from before the pair.
C13_SbrkRoundTrip ==
    [][(/\ last.op = "sbrk" /\ last.a1 = PAGE_SIZE /\ last.ret # -1
        /\ last'.op = "sbrk" /\ last'.a1 = -PAGE_SIZE
        /\ last'.caller = last.caller)
       => LET T == last.caller
              mapped(ms) == {v \in AllVpns : ms.page_table[v] # {}} IN
          /\ tcb'[T].program_brk = last.ret
          /\ Cardinality(mapped(tcb[T].memory_set) \ mapped(tcb'[T].memory_set)) = 1
          /\ mapped(tcb'[T].memory_set) = mapped(last.pre)]_vars

----------------------------------------------------------------------------
(* Properties of sys_fork *)

\* C14 as stated: sys_fork returns the new child's pid, the child's a0 is 0,
\* and the child's trap frame differs from the parent's in a0 only.
C14_ForkFramesDifferInA0Only ==
    [][last'.op = "fork" =>
        LET P == last'.caller
            C == last'.ret IN
        /\ C \notin live /\ C \in live'
        /\ tcb'[P].children = Append(tcb[P].children, C)
        /\ tcb'[C].trap_cx.x10 = 0
        /\ \A f \in DOMAIN tcb'[C].trap_cx \ {"x10"} :
              tcb'[C].trap_cx[f] = tcb'[P].trap_cx[f]]_vars

\* C14 amended: sys_fork returns the new child's pid, the child's a0 is 0,
\* and the child's trap frame differs from the parent's in a0 and in the
\* kernel stack pointer, which is the top of the child's own kernel stack;
\* the user stack pointer and the resume address are the parent's.
C14_ForkFrames ==
    [][last'.op = "fork" =>
        LET P == last'.caller
            C == last'.ret IN
        /\ C \notin live /\ C \in live'
        /\ tcb'[P].children = Append(tcb[P].children, C)
        /\ tcb'[C].trap_cx.x10 = 0
        /\ tcb'[C].trap_cx.kernel_sp = tcb'[C].kernel_stack
        /\ tcb'[C].kernel_stack # tcb'[P].kernel_stack
        /\ \A f \in DOMAIN tcb'[C].trap_cx \ {"x10", "kernel_sp"} :
              tcb'[C].trap_cx[f] = tcb'[P].trap_cx[f]]_vars

\* a task that runs the second image forked with a0 = 7: the child's frame
\* has a0 = 0 and the parent's resume address
C14_Witness ==
    /\ last.op = "fork"
    /\ tcb[last.caller].trap_cx.x10 = 7
    /\ tcb[last.ret].trap_cx.x10 = 0
    /\ tcb[last.ret].trap_cx.sepc = <<"usertest", "entry">>
    /\ last.caller # INITPROC


\* the parts of a task the separation is about
Separate(t) ==
    [memory_set |-> t.memory_set, heap_bottom |-> t.heap_bottom,
     program_brk |-> t.program_brk, fd_table |-> t.fd_table]

\* C15: fork gives the child copies: the caller's address space, heap bounds
\* and file table are as before the fork, and every later exec, mmap,
\* munmap, sbrk, open or close by one task leaves the address space, heap
\* bounds and file table of every other task exactly as they were.
C15_NoAliasing ==
    [][/\ last'.op = "fork" =>
            /\ Separate(tcb'[last'.caller]) = Separate(tcb[last'.caller])
            /\ tcb'[last'.ret].fd_table = tcb[last'.caller].fd_table
            /\ tcb'[last'.ret].memory_set.areas = tcb[last'.caller].memory_set.areas
       /\ last'.op \in {"fork", "exec", "mmap", "munmap", "sbrk", "open", "close"} =>
            \A p \in live \ {last'.caller} :
                Separate(tcb'[p]) = Separate(tcb[p])]_vars

\* a forked child has replaced its image, moved its break and closed its
\* standard input, and its parent still has the state the fork copied
C15_Witness ==
    /\ last.op \in {"exec", "sbrk", "close", "mmap"}
    /\ tcb[last.caller].parent = INITPROC
    /\ tcb[last.caller].fd_table[1] = NoFile
    /\ tcb[last.caller].program_brk # tcb[INITPROC].program_brk
    /\ tcb[last.caller].memory_set.areas # tcb[INITPROC].memory_set.areas
    /\ tcb[INITPROC].fd_table[1] = Stdin(0)
    /\ tcb[INITPROC].memory_set = from_elf("initproc")

====
